---- MODULE Spec2Model ----
(***************************************************************************)
(* Model of the coin_flip Dojo world: the Player and Game models           *)
(* (contracts/src/models.cairo) and the flip system                        *)
(* (contracts/src/systems/actions.cairo).                                  *)
(*                                                                         *)
(* A flip transaction runs the statements of the function body in order    *)
(* on a working copy of the world; a panic reverts the transaction, a      *)
(* normal return commits the working copy and the emitted events.          *)
(***************************************************************************)
EXTENDS Integers, Sequences, FiniteSets, TLC

\* ---------------------------------------------------------------- bounds
NumPlayers == 2
MaxCalls == 3
MaxTime == 2
\* How far below 2^32 - 1 the counters of the runs at the u32 limit start.
LimitRoom == 2
\* Successful flips in the runs with calls the execution context aborts.
MaxAbortRunCalls == 1
\* Button clicks the client handles in the runs of the client.
MaxClicks == 2

\* ------------------------------------------------------ program constants
U8_MAX == 255
\* dojoConfig.ts: MASTER_ADDRESS, the one account of the client, as an identity.
MASTER_ADDRESS == 1
\* A u32 is held as an integer and split into two 16-bit halves where its
\* width matters: 2^32 - 1 == (HALF - 1) * HALF + (HALF - 1).
HALF == 2^16

Identities == 1..NumPlayers
\* The u8 argument: the two valid values and the invalid value of the tests.
Predictions == {0, 1, 2}
Timestamps == 0..MaxTime

VARIABLES
    world,      \* committed storage: [Player: key -> values, Game: key -> values]
    events,     \* committed log of Flipped events, in emission order
    applied,    \* per identity, the number of flip calls that returned normally
    last,       \* the most recent flip call: inputs, result and storage accesses
    lim,        \* runs at the u32 limit: one identity's Player record with its
                \* counters as 16-bit halves, the records and events written
                \* since the start of the run, and the most recent call
    app,        \* the client: the React state of App and useDojo, the values of
                \* the last render, the effects and queries pending, and the
                \* invocations of App.flip that have not reached their end
    torii       \* the storage as the indexer has it: a committed storage that
                \* the chain has reached, possibly behind it

vars == <<world, events, applied, last, lim, app, torii>>

\* ---------------------------------------------------------------- models

\* models.cairo: struct Player { #[key] address, total_flips, wins, losses }
Player(address, total_flips, wins, losses) ==
    [address |-> address, total_flips |-> total_flips,
     wins |-> wins, losses |-> losses]

\* A Game whose outcome field is filled from the caller's prediction.
Game_outcomeFromPrediction(player, game_id, prediction, outcome, won) ==
    [player |-> player, game_id |-> game_id, prediction |-> prediction,
     outcome |-> prediction, won |-> won]

\* models.cairo: struct Game { #[key] player, #[key] game_id, prediction, outcome, won }
Game(player, game_id, prediction, outcome, won) ==
    [player |-> player, game_id |-> game_id, prediction |-> prediction,
     outcome |-> outcome, won |-> won]

\* The event with prediction and outcome in each other's place.
Flipped_swapped(player, game_id, prediction, outcome, won) ==
    [player |-> player, game_id |-> game_id, prediction |-> outcome,
     outcome |-> prediction, won |-> won]

\* actions.cairo: struct Flipped { #[key] player, game_id, prediction, outcome, won }
Flipped(player, game_id, prediction, outcome, won) ==
    [player |-> player, game_id |-> game_id, prediction |-> prediction,
     outcome |-> outcome, won |-> won]

\* A put that drops every other entry.
Put_dropOthers(f, k, v) == [x \in {k} |-> v]

\* A partial function with one more (or one overwritten) entry.
Put(f, k, v) == [x \in DOMAIN f \cup {k} |-> IF x = k THEN v ELSE f[x]]

\* A read that never finds the stored record.
read_model_Player_absent(w, key) == Player(key, 0, 0, 0)

\* world.read_model(caller): the stored record, or the key with zero values.
read_model_Player(w, key) ==
    IF key \in DOMAIN w.Player THEN w.Player[key] ELSE Player(key, 0, 0, 0)

\* world.read_model((caller, game_id)): the stored record, or the key with zero values.
read_model_Game(w, key) ==
    IF key \in DOMAIN w.Game THEN w.Game[key]
    ELSE Game(key[1], key[2], 0, 0, FALSE)

\* A write of every Player record under one and the same key.
write_model_Player_shared(w, player) ==
    [w EXCEPT !.Player = Put(w.Player, 1, player)]

\* world.write_model(@player): upsert at the record's own key field.
write_model_Player(w, player) ==
    [w EXCEPT !.Player = Put(w.Player, player.address, player)]

\* world.write_model(@game): upsert at the record's own key fields.
write_model_Game(w, game) ==
    [w EXCEPT !.Game = Put(w.Game, <<game.player, game.game_id>>, game)]

\* An emission that is lost.
emit_event_lost(evs, e) == evs

\* world.emit_event(@Flipped {...}): append to the transaction's event log.
emit_event(evs, e) == Append(evs, e)

\* ----------------------------------------------------- checked arithmetic

\* A u32 as its two 16-bit halves.
Wide(a) == [hi |-> a \div HALF, lo |-> a % HALF]

\* 2^32 - 1 - d, for d below 2^16.
WideBelowMax(d) == [hi |-> HALF - 1, lo |-> HALF - 1 - d]

\* An addition that never reports an overflow.
wide_add_ok_wrapping(a, b) == TRUE

\* u32 addition panics on overflow instead of wrapping: the sum fits 32 bits
\* when the high halves plus the carry of the low halves fit 16 bits.
wide_add_ok(a, b) == a.hi + b.hi + ((a.lo + b.lo) \div HALF) < HALF

\* The 32-bit sum, on halves.
wide_add(a, b) ==
    [hi |-> (a.hi + b.hi + ((a.lo + b.lo) \div HALF)) % HALF,
     lo |-> (a.lo + b.lo) % HALF]

u32_add_ok(a, b) == wide_add_ok(Wide(a), Wide(b))
u32_add(a, b) == a + b

\* (timestamp % 2).try_into(): Some(v) when v fits a u8, None otherwise.
try_into_u8_ok(v) == v >= 0 /\ v <= U8_MAX

\* ------------------------------------------------------------ flip: pieces

\* A validity check that lets 2 through.
ValidPrediction_upto2(prediction) == prediction <= 2

\* assert(prediction == 0 || prediction == 1, 'Invalid prediction')
ValidPrediction(prediction) == prediction = 0 \/ prediction = 1

\* The outcome without the reduction modulo 2.
Outcome_raw(timestamp) == timestamp

\* let outcome: u8 = (timestamp % 2).try_into().unwrap();
Outcome(timestamp) == timestamp % 2

\* A win decided by the outcome alone.
Won_tails(prediction, outcome) == outcome = 1

\* let won = prediction == outcome;
Won(prediction, outcome) == prediction = outcome

\* The id without the increment, and the id incremented twice.
NewGameId_same(player) == player.total_flips
NewGameId_skip(player) == u32_add(player.total_flips, 2)

\* let new_game_id = player.total_flips + 1;
NewGameId(player) == u32_add(player.total_flips, 1)

\* A tally that counts a win on every flip, and one with the branches swapped.
Tally_both(player, won) ==
    IF won THEN [player EXCEPT !.wins = u32_add(player.wins, 1)]
    ELSE [player EXCEPT !.wins = u32_add(player.wins, 1),
                        !.losses = u32_add(player.losses, 1)]
Tally_swapped(player, won) ==
    IF won THEN [player EXCEPT !.losses = u32_add(player.losses, 1)]
    ELSE [player EXCEPT !.wins = u32_add(player.wins, 1)]

\* if won { player.wins += 1; } else { player.losses += 1; }
Tally(player, won) ==
    IF won THEN [player EXCEPT !.wins = u32_add(player.wins, 1)]
    ELSE [player EXCEPT !.losses = u32_add(player.losses, 1)]

TallyOk(player, won) ==
    IF won THEN u32_add_ok(player.wins, 1) ELSE u32_add_ok(player.losses, 1)

\* ------------------------------------------------- flip: statement by statement

\* The body with the validity check after the read of the Player record.
FlipBody_lateAssert ==
    <<"caller", "read_player", "assert", "timestamp", "outcome", "won", "new_game_id",
      "total_flips", "tally", "address", "game",
      "write_player", "write_game", "emit_event">>

\* The statements of the body of flip, in source order.
FlipBody ==
    <<"assert", "caller", "read_player", "timestamp", "outcome", "won", "new_game_id",
      "total_flips", "tally", "address", "game",
      "write_player", "write_game", "emit_event">>

\* The frame of one invocation: arguments, execution context, locals, the
\* working copy of the storage, the events emitted so far and the storage
\* accesses made so far.  Locals hold zero values until their statement runs.
Frame(w, sender, prediction, block_timestamp) ==
    [status |-> "running", error |-> "",
     sender |-> sender, block_timestamp |-> block_timestamp,
     prediction |-> prediction,
     world |-> w, emitted |-> <<>>, trace |-> <<>>,
     caller |-> 0, timestamp |-> 0,
     player |-> Player(0, 0, 0, 0),
     outcome |-> 0, won |-> FALSE, new_game_id |-> 0,
     game |-> Game(0, 0, 0, 0, FALSE)]

Panic(f, msg) == [f EXCEPT !.status = "panicked", !.error = msg]

Access(f, op, kind) == Append(f.trace, [op |-> op, kind |-> kind])

\* The effect of one statement on the frame.
Step(stmt, f) ==
    CASE stmt = "assert" ->
            IF ValidPrediction(f.prediction) THEN f
            ELSE Panic(f, "Invalid prediction")
      [] stmt = "caller" ->
            [f EXCEPT !.caller = f.sender]
      [] stmt = "read_player" ->
            [f EXCEPT !.player = read_model_Player(f.world, f.caller),
                      !.trace = Access(f, "read_model", "Player")]
      [] stmt = "timestamp" ->
            [f EXCEPT !.timestamp = f.block_timestamp]
      [] stmt = "outcome" ->
            IF try_into_u8_ok(Outcome(f.timestamp))
            THEN [f EXCEPT !.outcome = Outcome(f.timestamp)]
            ELSE Panic(f, "Option::unwrap failed.")
      [] stmt = "won" ->
            [f EXCEPT !.won = Won(f.prediction, f.outcome)]
      [] stmt = "new_game_id" ->
            IF u32_add_ok(f.player.total_flips, 1)
            THEN [f EXCEPT !.new_game_id = NewGameId(f.player)]
            ELSE Panic(f, "u32_add Overflow")
      [] stmt = "total_flips" ->
            [f EXCEPT !.player.total_flips = f.new_game_id]
      [] stmt = "tally" ->
            IF TallyOk(f.player, f.won)
            THEN [f EXCEPT !.player = Tally(f.player, f.won)]
            ELSE Panic(f, "u32_add Overflow")
      [] stmt = "address" ->
            [f EXCEPT !.player.address = f.caller]
      [] stmt = "game" ->
            [f EXCEPT !.game = Game(f.caller, f.new_game_id, f.prediction,
                                    f.outcome, f.won)]
      [] stmt = "write_player" ->
            [f EXCEPT !.world = write_model_Player(f.world, f.player),
                      !.trace = Access(f, "write_model", "Player")]
      [] stmt = "write_game" ->
            [f EXCEPT !.world = write_model_Game(f.world, f.game),
                      !.trace = Access(f, "write_model", "Game")]
      [] stmt = "emit_event" ->
            [f EXCEPT !.emitted = emit_event(f.emitted,
                          Flipped(f.caller, f.new_game_id, f.prediction,
                                  f.outcome, f.won)),
                      !.trace = Access(f, "emit_event", "Flipped")]

\* Run the statements from position i on; a panic stops the run.
RECURSIVE Run(_, _, _)
Run(body, i, f) ==
    IF i > Len(body) \/ f.status = "panicked" THEN f
    ELSE Run(body, i + 1, Step(body[i], f))

\* fn flip(ref self: ContractState, prediction: u8), run to its end.
flip(w, sender, prediction, block_timestamp) ==
    Run(FlipBody, 1, Frame(w, sender, prediction, block_timestamp))

\* ------------------------------------------- flip on counters held as halves

\* The statements of flip that do u32 arithmetic, on counters held as halves;
\* every other statement moves values and is the same.
StepWide(stmt, f) ==
    CASE stmt = "new_game_id" ->
            IF wide_add_ok(f.player.total_flips, Wide(1))
            THEN [f EXCEPT !.new_game_id = wide_add(f.player.total_flips, Wide(1))]
            ELSE Panic(f, "u32_add Overflow")
      [] stmt = "tally" ->
            IF f.won
            THEN IF wide_add_ok(f.player.wins, Wide(1))
                 THEN [f EXCEPT !.player.wins = wide_add(f.player.wins, Wide(1))]
                 ELSE Panic(f, "u32_add Overflow")
            ELSE IF wide_add_ok(f.player.losses, Wide(1))
                 THEN [f EXCEPT !.player.losses = wide_add(f.player.losses, Wide(1))]
                 ELSE Panic(f, "u32_add Overflow")
      [] OTHER -> Step(stmt, f)

RECURSIVE RunWide(_, _, _)
RunWide(body, i, f) ==
    IF i > Len(body) \/ f.status = "panicked" THEN f
    ELSE RunWide(body, i + 1, StepWide(body[i], f))

\* flip run on the part of the storage it reads: the caller's Player record.
flipWide(player, prediction, block_timestamp) ==
    RunWide(FlipBody, 1,
            Frame([Player |-> [k \in {player.address} |-> player], Game |-> <<>>],
                  player.address, prediction, block_timestamp))

\* ------------------------------------------------------------ state machine

NoCall ==
    [status |-> "None", error |-> "", caller |-> 0, prediction |-> 0,
     timestamp |-> 0, trace |-> <<>>]

\* No run at the u32 limit.
NoLimitRun == [player |-> Player(0, Wide(0), Wide(0), Wide(0)),
               written |-> <<>>, emitted |-> <<>>, call |-> NoCall]

\* useState(...) of App and useDojo: the state of the first render.  null is
\* the empty sequence, a value v is <<v>>.
InitialState ==
    [account |-> FALSE, client |-> FALSE, isLoading |-> TRUE, error |-> FALSE,
     playerStats |-> <<>>, lastResult |-> <<>>, isFlipping |-> FALSE,
     coinAnimation |-> <<>>]

\* The client after its first render, its effects not yet run.  `flipped`
\* keeps, for the most recent invocation of App.flip, the prediction it
\* submitted and the Game record its transaction wrote.
AppStart ==
    [state |-> InitialState, dom |-> InitialState,
     effects |-> "pending", initialFetch |-> "none",
     calls |-> <<>>, clicks |-> 0,
     flipped |-> [prediction |-> 0, game |-> <<>>]]

InitWorld ==
    /\ world = [Player |-> <<>>, Game |-> <<>>]
    /\ events = <<>>
    /\ applied = [p \in Identities |-> 0]
    /\ last = NoCall
    /\ app = AppStart
    /\ torii = [Player |-> <<>>, Game |-> <<>>]

Init ==
    /\ InitWorld
    /\ lim = NoLimitRun

\* One flip transaction sent by `sender` in a block with time
\* `block_timestamp`.  A normal return commits the writes and the events
\* together; a panic reverts the transaction and leaves the committed state
\* as it was.  `last` keeps the call's arguments and what the call read.
FlipTx(sender, prediction, block_timestamp) ==
    \E f \in {flip(world, sender, prediction, block_timestamp)} :
    /\ f.status = "running" => Len(events) < MaxCalls
    /\ IF f.status = "running"
       THEN /\ world' = f.world
            /\ events' = events \o f.emitted
            /\ applied' = [applied EXCEPT ![sender] = @ + 1]
            /\ last' = [status |-> "Applied", error |-> "", caller |-> sender,
                        prediction |-> prediction, timestamp |-> f.timestamp,
                        trace |-> f.trace]
       ELSE /\ UNCHANGED <<world, events, applied>>
            /\ last' = [status |-> "Rejected", error |-> f.error,
                        caller |-> sender, prediction |-> prediction,
                        timestamp |-> f.timestamp, trace |-> f.trace]

\* A flip transaction sent to the contract directly.
Flip(sender, prediction, block_timestamp) ==
    /\ FlipTx(sender, prediction, block_timestamp)
    /\ UNCHANGED <<lim, app, torii>>

Next ==
    \E sender \in Identities, prediction \in Predictions,
       block_timestamp \in Timestamps :
        Flip(sender, prediction, block_timestamp)

Spec == Init /\ [][Next]_vars

\* ------------------------------------ calls the execution context aborts

\* Where a call can be stopped after it wrote: before the statement at this
\* position of the body (after the Player write, after the Game write), or
\* after the last statement (the event emitted, the call not yet returned).
AbortPoints ==
    {i \in 1..Len(FlipBody) : FlipBody[i] \in {"write_game", "emit_event"}}
        \cup {Len(FlipBody) + 1}

\* flip stopped before the statement at position k, unless it panicked earlier.
flipAborted(w, sender, prediction, block_timestamp, k) ==
    LET f == Run(SubSeq(FlipBody, 1, k - 1), 1,
                 Frame(w, sender, prediction, block_timestamp)) IN
    IF f.status = "panicked" THEN f ELSE Panic(f, "aborted")

\* A settlement that keeps the writes of a call that did not return.
Settle_partial(w, evs, f) ==
    IF f.status = "running"
    THEN [world |-> f.world, events |-> evs \o f.emitted]
    ELSE [world |-> f.world, events |-> evs]

\* The execution context settles a call: the writes and the events of a call
\* that returned are committed together, those of a call that did not are
\* discarded together.
Settle(w, evs, f) ==
    IF f.status = "running"
    THEN [world |-> f.world, events |-> evs \o f.emitted]
    ELSE [world |-> w, events |-> evs]

\* One flip transaction that the execution context stops at an abort point.
FlipAbort(sender, prediction, block_timestamp, k) ==
    \E f \in {flipAborted(world, sender, prediction, block_timestamp, k)} :
    /\ world' = Settle(world, events, f).world
    /\ events' = Settle(world, events, f).events
    /\ last' = [status |-> "Rejected", error |-> f.error,
                caller |-> sender, prediction |-> prediction,
                timestamp |-> f.timestamp, trace |-> f.trace]
    /\ UNCHANGED <<applied, lim, app, torii>>

NextAbort ==
    \/ \E sender \in Identities, prediction \in Predictions,
          block_timestamp \in Timestamps :
           /\ Len(events) < MaxAbortRunCalls \/ ~ValidPrediction(prediction)
           /\ Flip(sender, prediction, block_timestamp)
    \/ \E sender \in Identities, prediction \in Predictions,
          block_timestamp \in Timestamps, k \in AbortPoints :
           FlipAbort(sender, prediction, block_timestamp, k)

SpecAbort == Init /\ [][NextAbort]_vars

\* ------------------------------------------------- runs at the u32 limit

\* The Player record of identity 1 after 2^32 - 1 - d successful flips of
\* which l were lost.
InitLimit ==
    /\ InitWorld
    /\ \E d \in 0..LimitRoom, l \in 0..LimitRoom :
        lim = [player |-> Player(1, WideBelowMax(d), WideBelowMax(d + l), Wide(l)),
               written |-> <<>>, emitted |-> <<>>, call |-> NoCall]

\* The Game records a call wrote into a storage view that held none.
Written(f) ==
    IF DOMAIN f.world.Game = {} THEN <<>>
    ELSE <<f.world.Game[CHOOSE k \in DOMAIN f.world.Game : TRUE]>>

\* One flip transaction of that identity: committed on a normal return,
\* reverted on a panic.
FlipLimit(prediction, block_timestamp) ==
    \E f \in {flipWide(lim.player, prediction, block_timestamp)} :
    /\ lim' =
        IF f.status = "running"
        THEN [player |-> f.world.Player[lim.player.address],
              written |-> lim.written \o Written(f),
              emitted |-> lim.emitted \o f.emitted,
              call |-> [status |-> "Applied", error |-> "",
                        caller |-> lim.player.address,
                        prediction |-> prediction, timestamp |-> f.timestamp,
                        trace |-> f.trace]]
        ELSE [lim EXCEPT !.call =
                 [status |-> "Rejected", error |-> f.error,
                  caller |-> lim.player.address,
                  prediction |-> prediction, timestamp |-> f.timestamp,
                  trace |-> f.trace]]
    /\ UNCHANGED <<world, events, applied, last, app, torii>>

NextLimit ==
    \E prediction \in Predictions, block_timestamp \in Timestamps :
        FlipLimit(prediction, block_timestamp)

SpecLimit == InitLimit /\ [][NextLimit]_vars

\* ------------------------------------------------------------ observations

\* The Game keys stored for identity p, and the ids among them.
GameKeysOf(w, p) == {k \in DOMAIN w.Game : k[1] = p}
GameIdsOf(w, p) == {k[2] : k \in GameKeysOf(w, p)}

\* The Flipped events of identity p in a log.
EventsOf(evs, p) == {i \in 1..Len(evs) : evs[i].player = p}

\* The step is a flip call that returned normally / that panicked.
AppliedStep == last'.status = "Applied"
RejectedStep == last'.status = "Rejected"

\* ------------------------------------------------------------------ claims

\* C1: in every reachable state, for every identity p, also one that never
\* flipped and reads as the all-zero default, wins + losses == total_flips.
C1_WinsLossesTotal ==
    \A p \in Identities :
        LET pl == read_model_Player(world, p) IN
        pl.wins + pl.losses = pl.total_flips

\* C1 witness: one identity has won and lost, another never flipped.
C1_Witness ==
    \E p, q \in Identities :
        /\ p \in DOMAIN world.Player
        /\ world.Player[p].wins >= 1
        /\ world.Player[p].losses >= 1
        /\ q \notin DOMAIN world.Player
        /\ read_model_Player(world, q).total_flips = 0

\* C2: after any sequence of flip calls, accepted or rejected, by any
\* identities, an identity that made exactly n successful flips has
\* total_flips == n.
C2_TotalFlipsCountsApplied ==
    \A p \in Identities :
        read_model_Player(world, p).total_flips = applied[p]

\* C2 witness: p flipped twice, q once, and the latest call was rejected.
C2_Witness ==
    \E p, q \in Identities :
        /\ p # q
        /\ applied[p] = 2
        /\ applied[q] = 1
        /\ last.status = "Rejected"

\* C3: for every identity p the stored game ids are exactly 1..total_flips,
\* and the n-th successful flip by p writes the Game with
\* game_id == n == total_flips after that flip.
C3_DenseIds ==
    \A p \in Identities :
        GameIdsOf(world, p) = 1..read_model_Player(world, p).total_flips

C3_NthFlipWritesN ==
    AppliedStep =>
        LET p == last'.caller
            n == applied'[p] IN
        /\ DOMAIN world'.Game \ DOMAIN world.Game = {<<p, n>>}
        /\ world'.Game[<<p, n>>].game_id = n
        /\ read_model_Player(world', p).total_flips = n

C3_GameIds == []C3_DenseIds /\ [][C3_NthFlipWritesN]_vars

\* C3 witness: the latest call was the third successful flip of its caller,
\* who holds games 1, 2 and 3.
C3_Witness ==
    /\ last.status = "Applied"
    /\ applied[last.caller] = 3
    /\ GameIdsOf(world, last.caller) = {1, 2, 3}

\* C4: every stored Game record has prediction in {0,1}, outcome in {0,1}
\* and won == (prediction == outcome).
C4_GameWellFormed ==
    \A k \in DOMAIN world.Game :
        LET g == world.Game[k] IN
        /\ g.prediction \in {0, 1}
        /\ g.outcome \in {0, 1}
        /\ g.won = (g.prediction = g.outcome)

\* C4 witness: a won and a lost game are stored, the latest call having
\* read an odd block time.
C4_Witness ==
    /\ \E k \in DOMAIN world.Game : world.Game[k].won
    /\ \E k \in DOMAIN world.Game : ~world.Game[k].won
    /\ last.status = "Applied"
    /\ last.timestamp % 2 = 1

\* C5: a flip call with a prediction outside {0,1} leaves the whole record
\* store unchanged, creates no Player record and emits no Flipped event.
C5_InvalidFrame ==
    [][(last'.status # "None" /\ last'.prediction \notin {0, 1}) =>
            /\ world' = world
            /\ DOMAIN world'.Player = DOMAIN world.Player
            /\ events' = events]_vars

\* C5 witness: the latest call had an invalid prediction and came from an
\* identity without a Player record, while another identity has records.
C5_Witness ==
    /\ last.status # "None"
    /\ last.prediction \notin {0, 1}
    /\ last.caller \notin DOMAIN world.Player
    /\ DOMAIN world.Player # {}
    /\ DOMAIN world.Game # {}

\* C6: a flip call with a prediction outside {0,1} fails with the invalid
\* argument error ('Invalid prediction'), and the check comes before the
\* Player record is read and before any record is written: the call made no
\* storage access at all.
C6_RejectedBeforeAccess ==
    (last.status # "None" /\ last.prediction \notin {0, 1}) =>
        /\ last.status = "Rejected"
        /\ last.error = "Invalid prediction"
        /\ last.trace = <<>>

\* C6 witness: an invalid call was made by an identity that has a stored
\* Player record the call could have read.
C6_Witness ==
    /\ last.status = "Rejected"
    /\ last.prediction = 2
    /\ last.caller \in DOMAIN world.Player

\* C7: Game records are append-only: a record that exists at key (p, id)
\* is the identical record at that key after every later flip by any
\* identity; two consecutive flips by one identity create records with
\* distinct game_ids and the second never overwrites the first.
C7_AppendOnly ==
    [][/\ \A k \in DOMAIN world.Game :
            k \in DOMAIN world'.Game /\ world'.Game[k] = world.Game[k]
       /\ AppliedStep =>
            Cardinality(DOMAIN world'.Game) = Cardinality(DOMAIN world.Game) + 1]_vars

\* C7 witness: one identity made two flip(0) calls in a row with different
\* outcomes; both records are stored under distinct ids.
C7_Witness ==
    \E p \in Identities :
        /\ Len(events) = 2
        /\ events[1].player = p /\ events[2].player = p
        /\ <<p, 1>> \in DOMAIN world.Game /\ <<p, 2>> \in DOMAIN world.Game
        /\ world.Game[<<p, 1>>].prediction = 0
        /\ world.Game[<<p, 2>>].prediction = 0
        /\ world.Game[<<p, 1>>].outcome # world.Game[<<p, 2>>].outcome

\* C8: each successful flip by p changes the store by exactly:
\* total_flips of p increases by 1; exactly one of wins and losses of p
\* increases by 1 (wins if and only if won, otherwise losses) and the other
\* is unchanged; exactly one Game record is added.
C8_OneFlipEffect ==
    [][AppliedStep =>
        LET p == last'.caller
            old == read_model_Player(world, p)
            new == read_model_Player(world', p)
            added == DOMAIN world'.Game \ DOMAIN world.Game IN
        /\ new.total_flips = old.total_flips + 1
        /\ Cardinality(added) = 1
        /\ \A k \in added :
            /\ k[1] = p
            /\ IF world'.Game[k].won
               THEN new.wins = old.wins + 1 /\ new.losses = old.losses
               ELSE new.wins = old.wins /\ new.losses = old.losses + 1
        /\ \A k \in DOMAIN world.Game : world'.Game[k] = world.Game[k]
        /\ \A q \in Identities \ {p} :
            read_model_Player(world', q) = read_model_Player(world, q)]_vars

\* C8 witness: the latest successful flip was lost by an identity that had
\* won before.
C8_Witness ==
    /\ last.status = "Applied"
    /\ last.caller \in DOMAIN world.Player
    /\ world.Player[last.caller].wins >= 1
    /\ world.Player[last.caller].losses >= 1
    /\ ~world.Game[<<last.caller, world.Player[last.caller].total_flips>>].won

\* C9: a Flipped event is emitted if and only if the flip's writes
\* succeeded: an Applied flip emits exactly one Flipped event, a Rejected
\* flip emits none, and in every committed state the number of Flipped
\* events of p equals the number of Game records of p.
C9_EventsMatchGames ==
    \A p \in Identities :
        Cardinality(EventsOf(events, p)) = Cardinality(GameKeysOf(world, p))

C9_EventPerApplied ==
    /\ AppliedStep =>
        /\ Len(events') = Len(events) + 1
        /\ SubSeq(events', 1, Len(events)) = events
        /\ events'[Len(events')].player = last'.caller
        /\ world' # world
    /\ RejectedStep => events' = events /\ world' = world

C9_EventIffWrites == []C9_EventsMatchGames /\ [][C9_EventPerApplied]_vars

\* C9 witness: both identities have events and games, and the latest call
\* was rejected.
C9_Witness ==
    /\ \A p \in Identities : Cardinality(EventsOf(events, p)) >= 1
    /\ last.status = "Rejected"

\* C10: the Flipped event emitted by a successful flip carries the same
\* (player, game_id, prediction, outcome, won) values as the Game record
\* written by that flip.
C10_EventCopiesGame ==
    \A i \in 1..Len(events) :
        LET e == events[i]
            k == <<e.player, e.game_id>> IN
        /\ k \in DOMAIN world.Game
        /\ world.Game[k].player = e.player
        /\ world.Game[k].game_id = e.game_id
        /\ world.Game[k].prediction = e.prediction
        /\ world.Game[k].outcome = e.outcome
        /\ world.Game[k].won = e.won

\* C10 witness: an event of a lost flip with prediction 1 and outcome 0 and
\* an event of a won flip are in the log.
C10_Witness ==
    /\ \E i \in 1..Len(events) :
        events[i].prediction = 1 /\ events[i].outcome = 0 /\ ~events[i].won
    /\ \E i \in 1..Len(events) : events[i].won

\* C11: for every block timestamp t, the outcome recorded by a successful
\* flip equals t mod 2, and the conversion of that value to u8 never fails.
C11_OutcomeIsParity ==
    /\ last.error # "Option::unwrap failed."
    /\ last.status = "Applied" =>
        LET e == events[Len(events)] IN
        /\ e.player = last.caller
        /\ e.outcome = last.timestamp % 2
        /\ world.Game[<<e.player, e.game_id>>].outcome = last.timestamp % 2

\* C11 witness: a successful flip read the block time 2 and recorded 0.
C11_Witness ==
    /\ last.status = "Applied"
    /\ last.timestamp = 2
    /\ events[Len(events)].outcome = 0

\* The storage accesses of a flip that returns normally.
FullTrace ==
    <<[op |-> "read_model", kind |-> "Player"],
      [op |-> "write_model", kind |-> "Player"],
      [op |-> "write_model", kind |-> "Game"],
      [op |-> "emit_event", kind |-> "Flipped"]>>

\* What a call committed, and that it committed nothing.
LimitApplied ==
    /\ lim'.call.status = "Applied"
    /\ lim'.call.trace = FullTrace
    /\ lim'.player # lim.player
    /\ Len(lim'.written) = Len(lim.written) + 1
    /\ Len(lim'.emitted) = Len(lim.emitted) + 1

LimitRejected(error) ==
    /\ lim'.call.status = "Rejected"
    /\ lim'.call.error = error
    /\ lim'.player = lim.player
    /\ lim'.written = lim.written
    /\ lim'.emitted = lim.emitted

\* C12 as stated: every flip call ends Applied when the prediction is in
\* {0,1} and Rejected when it is not; a flip with a valid prediction never
\* fails in any reachable Player state and no other error kind arises.
C12_ValidNeverFails ==
    /\ lim.call.status # "None" =>
        (lim.call.status = "Applied" <=> lim.call.prediction \in {0, 1})
    /\ lim.call.error \in {"", "Invalid prediction"}

\* C12 as amended: every flip call ends in exactly one of Applied (Player
\* write, Game write and event committed) and Rejected (no write, no
\* event).  An invalid prediction is Rejected with 'Invalid prediction'; a
\* valid prediction is Applied in every Player state with
\* total_flips < 2^32 - 1 and Rejected with 'u32_add Overflow' when
\* total_flips == 2^32 - 1; no other error arises.
C12_TwoOutcomes ==
    [][/\ lim'.call.prediction \notin {0, 1} =>
            LimitRejected("Invalid prediction")
       /\ (lim'.call.prediction \in {0, 1}
             /\ lim.player.total_flips # WideBelowMax(0)) => LimitApplied
       /\ (lim'.call.prediction \in {0, 1}
             /\ lim.player.total_flips = WideBelowMax(0)) =>
            LimitRejected("u32_add Overflow")]_vars

\* C12 witness: a valid flip was applied at total_flips == 2^32 - 2 and the
\* next valid flip was rejected on the overflow.
C12_Witness ==
    /\ lim.call.status = "Rejected"
    /\ lim.call.prediction \in {0, 1}
    /\ lim.call.error = "u32_add Overflow"
    /\ lim.player.total_flips = WideBelowMax(0)
    /\ Len(lim.written) >= 1

\* C13: if a flip aborts at any step after validation (after the Player
\* write, after the Game write, or at event emission), no effect of the
\* call is visible in the committed state; no committed state has the
\* Player updated without the matching Game record, or a Game record
\* without its event.
C13_Committed ==
    \A p \in Identities :
        /\ GameIdsOf(world, p) = 1..read_model_Player(world, p).total_flips
        /\ \A id \in GameIdsOf(world, p) :
            \E i \in EventsOf(events, p) : events[i].game_id = id

C13_AbortedStep ==
    last'.error = "aborted" =>
        /\ world' = world
        /\ events' = events
        /\ applied' = applied

C13_AbortLeavesNothing == []C13_Committed /\ [][C13_AbortedStep]_vars

\* C13 witness: a call by an identity with a stored game was aborted after
\* it had written both records and emitted its event.
C13_Witness ==
    /\ last.error = "aborted"
    /\ last.trace = FullTrace
    /\ GameIdsOf(world, last.caller) # {}

\* C14: with one transition run to completion before the next begins, for
\* flip calls submitted in any number and taken in any order, no two
\* successful calls by the same identity read the same total_flips or
\* produce the same game_id: each reads the total_flips the previous one
\* wrote, so the ids of an identity strictly increase along the log.
C14_IdsIncrease ==
    \A i, j \in 1..Len(events) :
        (i < j /\ events[i].player = events[j].player) =>
            events[i].game_id < events[j].game_id

C14_ReadsCommitted ==
    AppliedStep =>
        LET p == last'.caller
            read == read_model_Player(world, p).total_flips IN
        /\ events'[Len(events')].game_id = read + 1
        /\ \A i \in EventsOf(events, p) : events[i].game_id - 1 # read

C14_NoSharedId == []C14_IdsIncrease /\ [][C14_ReadsCommitted]_vars

\* C14 witness: the calls of two identities were taken interleaved, the
\* first identity before and after the second.
C14_Witness ==
    /\ Len(events) = 3
    /\ events[1].player = events[3].player
    /\ events[2].player # events[1].player

\* C15: for a fresh identity A, a first flip(b) at a block time of parity b
\* yields outcome b, won, Player(A) == {total_flips:1, wins:1, losses:0} and
\* Game (A,1) == {b, b, true}; in general after the first flip
\* total_flips == 1, wins + losses == 1 and Game (A,1).prediction is the
\* prediction supplied.
C15_FirstFlip ==
    (last.status = "Applied" /\ applied[last.caller] = 1) =>
        LET A == last.caller
            b == last.prediction
            pl == read_model_Player(world, A)
            g == read_model_Game(world, <<A, 1>>) IN
        /\ <<A, 1>> \in DOMAIN world.Game
        /\ pl.total_flips = 1
        /\ pl.wins + pl.losses = 1
        /\ g.prediction = b
        /\ (last.timestamp % 2 = b) =>
            /\ g = Game(A, 1, b, b, TRUE)
            /\ pl = Player(A, 1, 1, 0)

\* C15 witness: the first flip of an identity, flip(0) at block time 2,
\* made after another identity had flipped.
C15_Witness ==
    /\ last.status = "Applied"
    /\ applied[last.caller] = 1
    /\ last.prediction = 0
    /\ last.timestamp = 2
    /\ Len(events) = 2

\* The (prediction, outcome) pairs of the events of identity p, in order.
RECURSIVE HistoryOf(_, _)
HistoryOf(evs, p) ==
    IF evs = <<>> THEN <<>>
    ELSE LET e == evs[Len(evs)]
             rest == HistoryOf(SubSeq(evs, 1, Len(evs) - 1), p) IN
         IF e.player = p THEN Append(rest, <<e.prediction, e.outcome>>) ELSE rest

\* C16: for a fresh identity A, flip(0), flip(1), flip(0) with outcomes
\* 0, 0, 1 end with Player(A) == {total_flips:3, wins:1, losses:2} and Games
\* (A,1) == {0,0,true}, (A,2) == {1,0,false}, (A,3) == {0,1,false}.
C16_ThreeFlips ==
    \A A \in Identities :
        (applied[A] = 3 /\ HistoryOf(events, A) = <<<<0, 0>>, <<1, 0>>, <<0, 1>>>>) =>
            /\ read_model_Player(world, A) = Player(A, 3, 1, 2)
            /\ GameKeysOf(world, A) = {<<A, 1>>, <<A, 2>>, <<A, 3>>}
            /\ world.Game[<<A, 1>>] = Game(A, 1, 0, 0, TRUE)
            /\ world.Game[<<A, 2>>] = Game(A, 2, 1, 0, FALSE)
            /\ world.Game[<<A, 3>>] = Game(A, 3, 0, 1, FALSE)

\* C16 witness: the three flips of the scenario were made.
C16_Witness ==
    \E A \in Identities :
        /\ applied[A] = 3
        /\ HistoryOf(events, A) = <<<<0, 0>>, <<1, 0>>, <<0, 1>>>>
        /\ last.status = "Applied"
        /\ last.timestamp % 2 = 1

\* C17: reading the Player record of an identity that never flipped
\* successfully is not an error and returns the zero-valued default; the
\* read does not change the store.
C17_DefaultRead ==
    \A p \in Identities :
        applied[p] = 0 =>
            LET f == Step("read_player",
                          [Frame(world, p, 0, 0) EXCEPT !.caller = p]) IN
            /\ read_model_Player(world, p) = Player(p, 0, 0, 0)
            /\ f.status = "running"
            /\ f.player = Player(p, 0, 0, 0)
            /\ f.world = world

\* C17 witness: an identity whose only call was rejected has no record,
\* while another identity has one.
C17_Witness ==
    /\ last.status = "Rejected"
    /\ applied[last.caller] = 0
    /\ DOMAIN world.Player # {}

\* C18: after put(kind, key, r), get(kind, key) returns exactly r and get at
\* every other key returns what it returned before; so after a successful
\* flip, reading Player(p) and Game (p, new id) returns exactly the records
\* that flip wrote.
C18_RoundTrip ==
    [][AppliedStep =>
        LET p == last'.caller
            f == flip(world, p, last'.prediction, last'.timestamp)
            k == <<p, f.new_game_id>> IN
        /\ read_model_Player(world', p) = f.player
        /\ read_model_Game(world', k) = f.game
        /\ \A q \in Identities \ {p} :
            read_model_Player(world', q) = read_model_Player(world, q)
        /\ \A q \in Identities, id \in 0..(MaxCalls + 1) :
            <<q, id>> # k =>
                read_model_Game(world', <<q, id>>) = read_model_Game(world, <<q, id>>)]_vars

\* C18 witness: a flip overwrote the Player record of its caller while the
\* other identity holds records.
C18_Witness ==
    /\ last.status = "Applied"
    /\ applied[last.caller] = 2
    /\ \E q \in Identities : q # last.caller /\ applied[q] = 1

\* C19: for every identity p, total_flips of p never decreases across any
\* transition: a successful flip, a rejected flip, a flip by another
\* identity.
C19_TotalFlipsMonotone ==
    [][\A p \in Identities :
        read_model_Player(world', p).total_flips
            >= read_model_Player(world, p).total_flips]_vars

\* C19 witness: an identity with two flips saw a flip by another identity
\* and then a rejected call.
C19_Witness ==
    /\ last.status = "Rejected"
    /\ \E p, q \in Identities : p # q /\ applied[p] = 2 /\ applied[q] = 1

\* C20: every Player record stored at key p has address == p, and once
\* written the address at that key never changes on later flips.
C20_AddressIsKey ==
    \A p \in DOMAIN world.Player : world.Player[p].address = p

C20_AddressKept ==
    \A p \in DOMAIN world.Player :
        /\ p \in DOMAIN world'.Player
        /\ world'.Player[p].address = world.Player[p].address

C20_Address == []C20_AddressIsKey /\ [][C20_AddressKept]_vars

\* C20 witness: both identities have a record and one of them was written
\* again.
C20_Witness ==
    /\ DOMAIN world.Player = Identities
    /\ \E p \in Identities : world.Player[p].total_flips >= 2

\* C21: the Player record of identity p comes into existence exactly at p's
\* first successful flip: it is stored if and only if p has a successful
\* flip; a step that stores it for the first time is that flip; and once
\* stored it is stored in every later state and is never the default
\* zero-valued record again.
C21_ExistsIffFlipped ==
    \A p \in Identities :
        /\ p \in DOMAIN world.Player <=> applied[p] >= 1
        /\ p \in DOMAIN world.Player =>
            world.Player[p] # [address |-> p, total_flips |-> 0,
                               wins |-> 0, losses |-> 0]

C21_CreatedThenKept ==
    \A p \in Identities :
        /\ p \in DOMAIN world.Player => p \in DOMAIN world'.Player
        /\ (p \notin DOMAIN world.Player /\ p \in DOMAIN world'.Player) =>
            /\ last'.status = "Applied"
            /\ last'.caller = p
            /\ applied[p] = 0
            /\ applied'[p] = 1

C21_PlayerLifecycle == []C21_ExistsIffFlipped /\ [][C21_CreatedThenKept]_vars

\* C21 witness: an identity's record outlived a flip by the other identity,
\* whose own record was created by it, and a later rejected call.
C21_Witness ==
    /\ last.status = "Rejected"
    /\ \E p, q \in Identities :
        /\ p # q
        /\ events # <<>> /\ events[1].player = p
        /\ applied[q] = 1
        /\ {p, q} \subseteq DOMAIN world.Player

\* C23: the outcome is derived, not supplied by the caller: the outcome that
\* an applied flip recorded is the outcome that any other successful flip run
\* with the same entropy value records in its Game record and in its event,
\* whatever its prediction, its caller and its caller's stored Player record.
C23_OutcomeNotSupplied ==
    last.status = "Applied" =>
        \A q \in Identities, b \in {0, 1} :
            \A g \in {flip(world, q, b, last.timestamp)} :
                g.status = "running" =>
                    /\ read_model_Game(g.world, <<q, g.new_game_id>>).outcome
                        = world.Game[<<last.caller,
                                       world.Player[last.caller].total_flips>>].outcome
                    /\ g.emitted[1].outcome = events[Len(events)].outcome

\* C23 witness: a flip was applied and the two identities hold different
\* Player records, one with wins only and one with losses only.
C23_Witness ==
    /\ last.status = "Applied"
    /\ \E p, q \in DOMAIN world.Player :
        /\ world.Player[p].wins = 2 /\ world.Player[p].losses = 0
        /\ world.Player[q].wins = 0 /\ world.Player[q].losses = 1

\* C24 as stated: the entropy source is predictable: in every store state
\* and for every entropy value t, a flip with prediction t mod 2 is applied
\* with won == true and wins incremented, and a flip with prediction
\* 1 - t mod 2 is applied with won == false.
C24_AlwaysPredictable ==
    \A t \in Timestamps :
        /\ \A f \in {flipWide(lim.player, t % 2, t)} :
            /\ f.status = "running"
            /\ Written(f)[1].won = TRUE
            /\ f.world.Player[lim.player.address].wins
                = wide_add(lim.player.wins, Wide(1))
        /\ \A f \in {flipWide(lim.player, 1 - (t % 2), t)} :
            /\ f.status = "running"
            /\ Written(f)[1].won = FALSE

\* C24 as amended: in every store state in which the caller's total_flips is
\* below 2^32 - 1 and for every entropy value t, a flip with prediction
\* t mod 2 is applied with won == true and wins incremented, and a flip with
\* prediction 1 - t mod 2 is applied with won == false; at
\* total_flips == 2^32 - 1 both calls are rejected with 'u32_add Overflow'.
\* Every applied call won exactly when its prediction was t mod 2.
C24_PredictableBelowLimit ==
    /\ \A t \in Timestamps :
        \A f \in {flipWide(lim.player, t % 2, t)},
           g \in {flipWide(lim.player, 1 - (t % 2), t)} :
            IF lim.player.total_flips # WideBelowMax(0)
            THEN /\ f.status = "running"
                 /\ Written(f)[1].won = TRUE
                 /\ f.world.Player[lim.player.address].wins
                     = wide_add(lim.player.wins, Wide(1))
                 /\ f.world.Player[lim.player.address].losses = lim.player.losses
                 /\ g.status = "running"
                 /\ Written(g)[1].won = FALSE
                 /\ g.world.Player[lim.player.address].wins = lim.player.wins
            ELSE /\ f.status = "panicked" /\ f.error = "u32_add Overflow"
                 /\ g.status = "panicked" /\ g.error = "u32_add Overflow"
    /\ lim.call.status = "Applied" =>
        lim.written[Len(lim.written)].won
            = (lim.call.prediction = lim.call.timestamp % 2)

\* C24 witness: a caller flipped t mod 2 with t odd and won, then flipped
\* 1 - t mod 2 and lost.
C24_Witness ==
    /\ lim.call.status = "Applied"
    /\ lim.call.prediction = 1 - (lim.call.timestamp % 2)
    /\ Len(lim.written) = 2
    /\ lim.written[1].won /\ lim.written[1].outcome = 1
    /\ ~lim.written[2].won

\* C25: a flip by identity p, accepted or rejected, leaves the Player record
\* and every Game record of every other identity unchanged and leaves every
\* Game record p already had unchanged; the only keys written are Player(p)
\* and Game (p, old total_flips + 1), and a rejected flip writes none.
C25_Frame ==
    [][LET p == last'.caller
           n == IF p \in DOMAIN world.Player
                THEN world.Player[p].total_flips + 1 ELSE 1 IN
       /\ \A q \in (DOMAIN world.Player \cup DOMAIN world'.Player) \ {p} :
            /\ q \in DOMAIN world.Player
            /\ q \in DOMAIN world'.Player
            /\ world'.Player[q] = world.Player[q]
       /\ \A k \in DOMAIN world.Game :
            /\ k \in DOMAIN world'.Game
            /\ world'.Game[k] = world.Game[k]
       /\ (DOMAIN world'.Game \ DOMAIN world.Game) \subseteq {<<p, n>>}
       /\ last'.status = "Rejected" => world' = world]_vars

\* C25 witness: the second flip of an identity was applied while the other
\* identity held a Player record and a lost Game.
C25_Witness ==
    /\ last.status = "Applied"
    /\ Len(events) = 3 /\ events[3].player = last.caller
    /\ <<last.caller, 2>> \in DOMAIN world.Game
    /\ \E q \in DOMAIN world.Player :
        /\ q # last.caller
        /\ <<q, 1>> \in DOMAIN world.Game
        /\ ~world.Game[<<q, 1>>].won

\* C26: in every reachable state and for every identity p, Player(p).wins is
\* the number of stored Game records of p with won == true and
\* Player(p).losses is the number with won == false (both 0 for an identity
\* without a record).
C26_TalliesCountGames ==
    \A p \in Identities :
        /\ (IF p \in DOMAIN world.Player THEN world.Player[p].wins ELSE 0)
            = Cardinality({k \in DOMAIN world.Game :
                              k[1] = p /\ world.Game[k].won = TRUE})
        /\ (IF p \in DOMAIN world.Player THEN world.Player[p].losses ELSE 0)
            = Cardinality({k \in DOMAIN world.Game :
                              k[1] = p /\ world.Game[k].won = FALSE})

\* C26 witness: an identity holds two won Games and a lost one.
C26_Witness ==
    \E p \in DOMAIN world.Player :
        /\ world.Player[p].wins = 2
        /\ world.Player[p].losses = 1
        /\ Cardinality({k \in DOMAIN world.Game : k[1] = p}) = 3

\* C27: the u32 counters never wrap.  No stored Game record has game_id 0
\* and no counter of the Player record ever decreases; at
\* total_flips == 2^32 - 1 a flip with a valid prediction aborts on the
\* checked addition before any write: the Player record, the Game records
\* and the events stay as they were.
C27_NoGameIdZero ==
    /\ \A i \in 1..Len(lim.written) :
        lim.written[i].game_id # [hi |-> 0, lo |-> 0]
    /\ \A i \in 1..Len(lim.emitted) :
        lim.emitted[i].game_id # [hi |-> 0, lo |-> 0]
    /\ lim.player.total_flips # [hi |-> 0, lo |-> 0]

C27_AbortsAtLimit ==
    /\ \A c \in {"total_flips", "wins", "losses"} :
        \/ lim'.player[c].hi > lim.player[c].hi
        \/ /\ lim'.player[c].hi = lim.player[c].hi
           /\ lim'.player[c].lo >= lim.player[c].lo
    /\ (lim.player.total_flips = [hi |-> HALF - 1, lo |-> HALF - 1]
          /\ lim'.call.prediction \in {0, 1}) =>
        /\ lim'.call.status = "Rejected"
        /\ lim'.call.error = "u32_add Overflow"
        /\ lim'.call.trace = <<[op |-> "read_model", kind |-> "Player"]>>
        /\ lim'.player = lim.player
        /\ lim'.written = lim.written
        /\ lim'.emitted = lim.emitted

C27_NoWrap == []C27_NoGameIdZero /\ [][C27_AbortsAtLimit]_vars

\* C27 witness: the flip that wrote game_id 2^32 - 1 was applied and the
\* valid flip after it was rejected on the overflow.
C27_Witness ==
    /\ lim.call.status = "Rejected"
    /\ lim.call.prediction \in {0, 1}
    /\ lim.call.error = "u32_add Overflow"
    /\ Len(lim.written) = 2
    /\ lim.written[2].game_id = [hi |-> HALF - 1, lo |-> HALF - 1]
    /\ lim.player.total_flips = lim.written[2].game_id

\* The committed storage and event log after one more flip transaction: the
\* writes and the event of a call that returned, nothing of a call that
\* panicked.
Transact(st, sender, prediction, block_timestamp) ==
    LET f == flip(st.world, sender, prediction, block_timestamp) IN
    IF f.status = "running"
    THEN [world |-> f.world, events |-> st.events \o f.emitted]
    ELSE st

\* The events of identity p, in emission order.
EventSeqOf(evs, p) ==
    LET OfP(e) == e.player = p IN SelectSeq(evs, OfP)

\* C28: flips by distinct identities commute: from every state with room for
\* two more calls, flip by p (prediction a, entropy s) then flip by q
\* (prediction b, entropy t) gives the same storage and, for every identity,
\* the same sequence of events as the two calls in the opposite order.
C28_DistinctCallersCommute ==
    Len(events) + 2 <= MaxCalls =>
        \A p, q \in Identities :
            p < q =>
                \A a, b \in Predictions, s, t \in Timestamps :
                    \A pq \in {Transact(Transact([world |-> world, events |-> events],
                                                 p, a, s), q, b, t)},
                       qp \in {Transact(Transact([world |-> world, events |-> events],
                                                 q, b, t), p, a, s)} :
                        /\ pq.world = qp.world
                        /\ \A r \in Identities :
                            EventSeqOf(pq.events, r) = EventSeqOf(qp.events, r)

\* C28 witness: two identities flipped one after the other, with different
\* predictions, after an earlier flip.
C28_Witness ==
    /\ last.status = "Applied"
    /\ Len(events) = 3
    /\ events[2].player # events[3].player
    /\ events[2].prediction # events[3].prediction
    /\ events[1].player = events[2].player

\* ------------------------------------------------------------- the client

\* A sequence without its i-th element.
RemoveAt(s, i) == SubSeq(s, 1, i - 1) \o SubSeq(s, i + 1, Len(s))

\* Buttons that are never disabled.
Disabled_never(dom) == FALSE

\* <button ... disabled={isFlipping}>, as last rendered.
Disabled(dom) == dom.isFlipping

\* The buttons are rendered only when the loading screen and the error
\* screen are not.
ButtonsShown(dom) == ~dom.isLoading /\ ~dom.error

\* GET_LATEST_GAME: the Game records of `player`, ordered by game_id
\* descending, first 1; no edge when the indexer has no Game of the player.
LatestGame(idx, player) ==
    LET ids == {k[2] : k \in {x \in DOMAIN idx.Game : x[1] = player}} IN
    IF ids = {} THEN <<>>
    ELSE <<idx.Game[<<player, CHOOSE n \in ids : \A o \in ids : o <= n>>]>>

\* fetchLatestGame: prediction, outcome and won of the first node; null when
\* there is no node or the query throws.
fetchLatestGame(idx, ok) ==
    IF ok /\ LatestGame(idx, MASTER_ADDRESS) # <<>>
    THEN <<[prediction |-> LatestGame(idx, MASTER_ADDRESS)[1].prediction,
            outcome |-> LatestGame(idx, MASTER_ADDRESS)[1].outcome,
            won |-> LatestGame(idx, MASTER_ADDRESS)[1].won]>>
    ELSE <<>>

\* fetchPlayerStats: setPlayerStats with the counters of the first node;
\* nothing when there is no node or the query throws.
fetchPlayerStats(state, idx, ok) ==
    IF ok /\ MASTER_ADDRESS \in DOMAIN idx.Player
    THEN [state EXCEPT !.playerStats =
             <<[total_flips |-> idx.Player[MASTER_ADDRESS].total_flips,
                wins |-> idx.Player[MASTER_ADDRESS].wins,
                losses |-> idx.Player[MASTER_ADDRESS].losses]>>]
    ELSE state

\* An error that is swallowed where it arises: the invocation goes on to
\* its wait and its queries.
Thrown_continues(a, i) == [a EXCEPT !.calls[i].pc = "timeout"]

\* A catch without the finally block: isFlipping stays set.
Thrown_noFinally(a, i) == [a EXCEPT !.calls = RemoveAt(@, i)]

\* catch and finally of App.flip in invocation i: the error is logged,
\* setIsFlipping(false), and the invocation is over.
Thrown(a, i) ==
    [a EXCEPT !.state.isFlipping = FALSE, !.calls = RemoveAt(@, i)]

\* An initialize without its finally block, and one that sets the account
\* as soon as it is made, before the world client is set up.
initialize_noFinally(state, ok) ==
    IF ok
    THEN [state EXCEPT !.account = TRUE, !.client = TRUE, !.isLoading = FALSE]
    ELSE [state EXCEPT !.error = TRUE]
initialize_accountFirst(state, ok) ==
    IF ok
    THEN [state EXCEPT !.account = TRUE, !.client = TRUE, !.isLoading = FALSE]
    ELSE [state EXCEPT !.account = TRUE, !.error = TRUE, !.isLoading = FALSE]

\* useDojo's initialize: the providers, the account and the world client are
\* made; when all are made (ok), setAccount and setClient; when a constructor
\* throws, setError; in both cases setIsLoading(false).
initialize(state, ok) ==
    IF ok
    THEN [state EXCEPT !.account = TRUE, !.client = TRUE, !.isLoading = FALSE]
    ELSE [state EXCEPT !.error = TRUE, !.isLoading = FALSE]

\* The effects of the first render: useDojo's initialize, and App's initial
\* fetchPlayerStats, which sends its query.
Mount(ok) ==
    /\ app.effects = "pending"
    /\ app' = [app EXCEPT
                 !.effects = "run",
                 !.initialFetch = "pending",
                 !.state = initialize(@, ok)]
    /\ UNCHANGED <<world, events, applied, last, lim, torii>>

\* The query of the initial fetchPlayerStats returns or throws.
InitialFetch(ok) ==
    /\ app.initialFetch = "pending"
    /\ app' = [app EXCEPT !.initialFetch = "done",
                          !.state = fetchPlayerStats(@, torii, ok)]
    /\ UNCHANGED <<world, events, applied, last, lim, torii>>

\* React renders App with the current state; the handlers of the buttons
\* close over the values of this render.
Render ==
    /\ app.dom # app.state
    /\ app' = [app EXCEPT !.dom = app.state]
    /\ UNCHANGED <<world, events, applied, last, lim, torii>>

\* A click on the Heads or the Tails button, which the browser delivers only
\* to a button that is rendered and not disabled: App.flip runs up to its
\* first await, where client.actions.flip has sent the transaction.  React
\* renders the updates of a click handler before the next event is
\* delivered.
Click(prediction) ==
    /\ app.clicks < MaxClicks
    /\ ButtonsShown(app.dom)
    /\ ~Disabled(app.dom)
    /\ IF ~app.dom.client \/ ~app.dom.account
       THEN app' = [app EXCEPT !.clicks = @ + 1]
       ELSE \E s \in {[app.state EXCEPT !.isFlipping = TRUE,
                                        !.coinAnimation = <<>>,
                                        !.lastResult = <<>>]} :
            app' = [app EXCEPT
                      !.clicks = @ + 1,
                      !.state = s,
                      !.dom = s,
                      !.calls = Append(@, [pc |-> "execute",
                                           prediction |-> prediction]),
                      !.flipped = [prediction |-> prediction, game |-> <<>>]]
    /\ UNCHANGED <<world, events, applied, last, lim, torii>>

\* provider.execute of invocation i returns: the transaction ran on the
\* chain, sent by the master account; App.flip goes on to its wait.  A
\* transaction that panics makes execute throw.
Executed(i, block_timestamp) ==
    /\ i \in 1..Len(app.calls)
    /\ app.calls[i].pc = "execute"
    /\ FlipTx(MASTER_ADDRESS, app.calls[i].prediction, block_timestamp)
    /\ app' = IF last'.status = "Applied"
              THEN [app EXCEPT
                      !.calls[i].pc = "timeout",
                      !.flipped.game =
                          IF i = Len(app.calls)
                          THEN <<world'.Game[<<MASTER_ADDRESS,
                                   world'.Player[MASTER_ADDRESS].total_flips>>]>>
                          ELSE @]
              ELSE Thrown(app, i)
    /\ UNCHANGED <<lim, torii>>

\* provider.execute of invocation i throws without a transaction on the
\* chain: actions_flip logs and rethrows, App.flip catches.
ExecuteThrew(i) ==
    /\ i \in 1..Len(app.calls)
    /\ app.calls[i].pc = "execute"
    /\ app' = Thrown(app, i)
    /\ UNCHANGED <<world, events, applied, last, lim, torii>>

\* The 1500 ms timer of invocation i fires: fetchLatestGame sends its query.
TimeoutFired(i) ==
    /\ i \in 1..Len(app.calls)
    /\ app.calls[i].pc = "timeout"
    /\ app' = [app EXCEPT !.calls[i].pc = "fetchLatestGame"]
    /\ UNCHANGED <<world, events, applied, last, lim, torii>>

\* The query of fetchLatestGame of invocation i returns or throws: a result
\* is set as lastResult and coinAnimation; fetchPlayerStats sends its query.
LatestGameFetched(i, ok) ==
    /\ i \in 1..Len(app.calls)
    /\ app.calls[i].pc = "fetchLatestGame"
    /\ \E result \in {fetchLatestGame(torii, ok)} :
        app' = [app EXCEPT
                  !.calls[i].pc = "fetchPlayerStats",
                  !.state =
                      IF result # <<>>
                      THEN [@ EXCEPT
                              !.lastResult = result,
                              !.coinAnimation =
                                  IF result[1].outcome = 0
                                  THEN <<"heads">> ELSE <<"tails">>]
                      ELSE @]
    /\ UNCHANGED <<world, events, applied, last, lim, torii>>

\* The query of fetchPlayerStats of invocation i returns or throws; then the
\* finally block: setIsFlipping(false), and the invocation is over.
PlayerStatsFetched(i, ok) ==
    /\ i \in 1..Len(app.calls)
    /\ app.calls[i].pc = "fetchPlayerStats"
    /\ app' = [app EXCEPT
                 !.state = [fetchPlayerStats(@, torii, ok)
                               EXCEPT !.isFlipping = FALSE],
                 !.calls = RemoveAt(@, i)]
    /\ UNCHANGED <<world, events, applied, last, lim, torii>>

\* The indexer catches up with the chain.
Index ==
    /\ torii # world
    /\ torii' = world
    /\ UNCHANGED <<world, events, applied, last, lim, app>>

NextClient ==
    \/ \E ok \in BOOLEAN : Mount(ok)
    \/ \E ok \in BOOLEAN : InitialFetch(ok)
    \/ Render
    \/ \E prediction \in {0, 1} : Click(prediction)
    \/ \E i \in 1..MaxClicks, block_timestamp \in Timestamps :
           Executed(i, block_timestamp)
    \/ \E i \in 1..MaxClicks : ExecuteThrew(i)
    \/ \E i \in 1..MaxClicks : TimeoutFired(i)
    \/ \E i \in 1..MaxClicks, ok \in BOOLEAN : LatestGameFetched(i, ok)
    \/ \E i \in 1..MaxClicks, ok \in BOOLEAN : PlayerStatsFetched(i, ok)
    \/ Index

SpecClient == Init /\ [][NextClient]_vars

\* C29: the client never has two flip transactions in flight: from the click
\* that starts App.flip until the finally block of that invocation, isFlipping
\* is set and no second invocation of App.flip, hence no second
\* client.actions.flip, is started, whatever the order of clicks, renders,
\* query results and indexer steps.
C29_OneFlipInFlight ==
    /\ Len(app.calls) <= 1
    /\ app.calls # <<>> => app.state.isFlipping = TRUE
    /\ app.state.isFlipping = TRUE => app.dom.isFlipping = TRUE

\* C29 witness: the transaction of a second click is in flight, after the
\* first invocation went through its finally block and a render enabled the
\* buttons again.
C29_Witness ==
    /\ app.clicks = 2
    /\ Len(app.calls) = 1
    /\ app.calls[1].pc = "execute"
    /\ Len(events) = 1

\* C30: the result the client shows after a flip is the Game record of that
\* same flip: whenever lastResult is set, its prediction is the prediction
\* the invocation submitted and its outcome and won are those of the Game
\* record that the invocation's transaction wrote, for every indexer delay.
C30_ShowsOwnGame ==
    app.state.lastResult # <<>> =>
        /\ app.state.lastResult[1].prediction = app.flipped.prediction
        /\ app.flipped.game # <<>>
        /\ app.state.lastResult[1].outcome = app.flipped.game[1].outcome
        /\ app.state.lastResult[1].won = app.flipped.game[1].won

\* The client with its scheduling: React runs the effects of the first
\* render, and every promise that App.flip awaits settles (provider.execute
\* returns or throws, the timer fires, each query returns or throws).
SpecClientFair ==
    /\ SpecClient
    /\ WF_vars(\E ok \in BOOLEAN : Mount(ok))
    /\ WF_vars(\E i \in 1..MaxClicks :
                  \/ ExecuteThrew(i)
                  \/ \E block_timestamp \in Timestamps : Executed(i, block_timestamp))
    /\ WF_vars(\E i \in 1..MaxClicks : TimeoutFired(i))
    /\ WF_vars(\E i \in 1..MaxClicks, ok \in BOOLEAN : LatestGameFetched(i, ok))
    /\ WF_vars(\E i \in 1..MaxClicks, ok \in BOOLEAN : PlayerStatsFetched(i, ok))

\* C31: every App.flip call that sets isFlipping to true eventually sets it
\* back to false, whether the transaction succeeds or throws and whether
\* the indexer queries return or fail, given that every awaited promise
\* settles.
C31_FlippingEnds ==
    (app.state.isFlipping = TRUE) ~> (app.state.isFlipping = FALSE)

\* C31 witness: isFlipping is false again after one invocation whose
\* transaction was applied and one whose transaction threw.
C31_Witness ==
    /\ app.clicks = 2
    /\ app.calls = <<>>
    /\ app.state.isFlipping = FALSE
    /\ Len(events) = 1

\* C32: when client.actions.flip throws, App.flip issues no indexer query
\* for that flip and ends without passing the error on: the invocation is
\* over with isFlipping false, lastResult and coinAnimation are null and
\* playerStats is what it was; and while no invocation runs, lastResult and
\* coinAnimation stay as they are.
C32_ThrowShowsNothing ==
    [][/\ (/\ app.calls # <<>>
           /\ app.calls[Len(app.calls)].pc = "execute"
           /\ app'.calls # app.calls
           /\ events' = events) =>
            /\ app'.calls = <<>>
            /\ app'.state.isFlipping = FALSE
            /\ app'.state.lastResult = <<>>
            /\ app'.state.coinAnimation = <<>>
            /\ app'.state.playerStats = app.state.playerStats
            /\ torii' = torii
       /\ (app.calls = <<>> /\ app'.calls = <<>>) =>
            /\ app'.state.lastResult = app.state.lastResult
            /\ app'.state.coinAnimation = app.state.coinAnimation]_vars

\* C32 witness: after a flip whose result and statistics were shown, the
\* transaction of a second click threw.
C32_Witness ==
    /\ app.clicks = 2
    /\ app.calls = <<>>
    /\ Len(events) = 1
    /\ app.state.playerStats # <<>>
    /\ app.state.lastResult = <<>>
    /\ app.state.coinAnimation = <<>>
    /\ app.state.isFlipping = FALSE

\* {lastResult && !isFlipping && (...)}: the result panel is part of the
\* main render when lastResult is set and isFlipping is not.
PanelShown(dom) ==
    ButtonsShown(dom) /\ dom.lastResult # <<>> /\ ~dom.isFlipping

\* C33: the client never shows the result of an earlier flip for a later
\* one: no result is displayed from the start of a flip to its completion,
\* and a result that is displayed is the result of the most recent flip,
\* with the prediction that flip submitted.
C33_NoEarlierResult ==
    PanelShown(app.dom) =>
        /\ app.calls = <<>>
        /\ app.flipped.game # <<>>
        /\ app.dom.lastResult[1]
            = [prediction |-> app.flipped.prediction,
               outcome |-> app.flipped.game[1].outcome,
               won |-> app.flipped.game[1].won]

\* C34: useDojo starts with isLoading == true; its one-time initialize runs
\* and leaves isLoading false, both when it succeeds and when it throws; and
\* isLoading never returns to true.
C34_Loading ==
    app.effects = "pending" <=> app.state.isLoading = TRUE

C34_LoadingStaysOff ==
    app.state.isLoading = FALSE => app'.state.isLoading = FALSE

C34_LoadingEnds ==
    /\ []C34_Loading
    /\ [][C34_LoadingStaysOff]_vars
    /\ <>(app.state.isLoading = FALSE)

\* C34 witness: initialize threw, isLoading is false and the error screen is
\* rendered.
C34_Witness ==
    /\ app.effects = "run"
    /\ app.state.error = TRUE
    /\ app.state.isLoading = FALSE
    /\ app.dom = app.state

\* C35: in every useDojo state with isLoading == false, either error is null
\* and account and client are both set, or error is set and account and
\* client are both null; account and client are never set one without the
\* other, in the state and in what is rendered.
C35_AccountAndClient ==
    \A s \in {app.state, app.dom} :
        /\ s.account = s.client
        /\ s.isLoading = FALSE =>
            \/ s.error = FALSE /\ s.account = TRUE /\ s.client = TRUE
            \/ s.error = TRUE /\ s.account = FALSE /\ s.client = FALSE
        /\ s.isLoading = TRUE =>
            s.error = FALSE /\ s.account = FALSE /\ s.client = FALSE

\* C35 witness: initialize succeeded and the client it set was used by a
\* click.
C35_Witness ==
    /\ app.state.isLoading = FALSE
    /\ app.state.error = FALSE
    /\ app.state.account = TRUE
    /\ app.state.client = TRUE
    /\ app.clicks = 1
    /\ app.calls # <<>>

====
